---- MODULE Spec2Model ----
(***************************************************************************)
(* Model of fixedIncome's TermInterestRateSwap                             *)
(* (src/assets/rates/linear_rates/interest_rate_swap.py): the accrual      *)
(* schedule generators, the two leg cashflow builders and the leg          *)
(* accessors of one swap instance.                                         *)
(*                                                                         *)
(* Dates are proleptic Gregorian ordinals, as datetime.date.toordinal()    *)
(* numbers them (0001-01-01 is day 1), so that weekdays, month lengths,    *)
(* leap years and relativedelta's end-of-month clipping are the real ones. *)
(* Real quantities are scaled integers: an accrual factor is kept as its   *)
(* numerator over 360, rates are in units of 1/1000.                       *)
(***************************************************************************)
EXTENDS Integers, Sequences, FiniteSets

(***************************************************************************)
(* Bounds of the model.                                                    *)
(***************************************************************************)
\* start_accrual_date ranges over BaseDate .. BaseDate + MaxStartOffset
MaxStartOffset == 3
\* end_accrual_date is start_accrual_date plus 0..MaxTenorMonths months, or
\* plus one of LongTenorMonths months ...
MaxTenorMonths == 4
\* ... plus 0..MaxTenorDays days
MaxTenorDays == 1
\* the years the calendar arithmetic covers, 2023 .. 2023 + YearSpan
YearSpan == 3

(***************************************************************************)
(* datetime.date                                                           *)
(***************************************************************************)
Years == 2023 .. (2023 + YearSpan)

IsLeap(y) == (y % 4 = 0) /\ ((y % 100 # 0) \/ (y % 400 = 0))

DaysInMonth(y, m) ==
    IF m = 2 THEN (IF IsLeap(y) THEN 29 ELSE 28)
    ELSE IF m \in {4, 6, 9, 11} THEN 30
    ELSE 31

\* days before January 1st of year y
DaysBeforeYear(y) ==
    LET p == y - 1 IN 365 * p + (p \div 4) - (p \div 100) + (p \div 400)

RECURSIVE DaysBeforeMonth(_, _)
DaysBeforeMonth(y, m) ==
    IF m = 1 THEN 0 ELSE DaysBeforeMonth(y, m - 1) + DaysInMonth(y, m - 1)

\* date(y, m, d).toordinal()
Ordinal(y, m, d) == DaysBeforeYear(y) + DaysBeforeMonth(y, m) + d

FirstDay == DaysBeforeYear(2023) + 1

LastDay == DaysBeforeYear(2023 + YearSpan + 1)

\* the (year, month, day) of every ordinal of Years, tabulated once
Civil ==
    [n \in FirstDay..LastDay |->
        LET y == CHOOSE yy \in Years : DaysBeforeYear(yy) < n /\ n <= DaysBeforeYear(yy + 1)
            r == n - DaysBeforeYear(y)
            m == CHOOSE mm \in 1..12 :
                    DaysBeforeMonth(y, mm) < r /\ r <= DaysBeforeMonth(y, mm) + DaysInMonth(y, mm)
        IN <<y, m, r - DaysBeforeMonth(y, m)>>]

\* date.year, date.month, date.day
YearOf(n) == Civil[n][1]

MonthOf(n) == Civil[n][2]

DayOf(n) == Civil[n][3]

\* date.weekday(): Monday is 0, Sunday is 6
Weekday(n) == (n + 6) % 7

Min(a, b) == IF a <= b THEN a ELSE b

\* date + relativedelta(months=k) for k of either sign: the month moves by k,
\* the year follows, and the day is clipped to the last day of the new month
AddMonths(n, k) ==
    LET y  == YearOf(n)
        m  == MonthOf(n)
        t  == (y * 12 + (m - 1)) + k
        ny == t \div 12
        nm == (t % 12) + 1
    IN Ordinal(ny, nm, Min(DayOf(n), DaysInMonth(ny, nm)))

(***************************************************************************)
(* schedule_enumerations                                                   *)
(***************************************************************************)
\* PaymentFrequency: the three members the generators dispatch on, and
\* MONTHLY standing for every other member of the enumeration
PaymentFrequency == {"ANNUAL", "SEMI_ANNUAL", "QUARTERLY", "MONTHLY"}

BusinessDayAdjustment == {"FOLLOWING", "MODIFIED_FOLLOWING"}

SettlementConvention ==
    {"T_MINUS_TWO_BUSINESS", "T_PLUS_ZERO_BUSINESS", "T_PLUS_TWO_BUSINESS"}

DayCountConvention == {"ACTUAL_OVER_360", "THIRTY_OVER_THREESIXTY"}

(***************************************************************************)
(* scheduling_tools.Scheduler and DayCountCalculator.  A holiday calendar  *)
(* is the set of its holiday dates.                                        *)
(***************************************************************************)
IsBusinessDay(d, holiday_calendar) == Weekday(d) < 5 /\ d \notin holiday_calendar

RECURSIVE NextBusinessDay(_, _)
NextBusinessDay(d, holiday_calendar) ==
    IF IsBusinessDay(d, holiday_calendar) THEN d
    ELSE NextBusinessDay(d + 1, holiday_calendar)

RECURSIVE PreviousBusinessDay(_, _)
PreviousBusinessDay(d, holiday_calendar) ==
    IF IsBusinessDay(d, holiday_calendar) THEN d
    ELSE PreviousBusinessDay(d - 1, holiday_calendar)

\* Scheduler.following_date_adjustment
following_date_adjustment(date_obj, holiday_calendar) ==
    NextBusinessDay(date_obj, holiday_calendar)

\* Scheduler.modified_following_date_adjustment
modified_following_date_adjustment(date_obj, holiday_calendar) ==
    LET following == NextBusinessDay(date_obj, holiday_calendar)
    IN IF MonthOf(following) # MonthOf(date_obj)
       THEN PreviousBusinessDay(date_obj, holiday_calendar)
       ELSE following

\* n business days after (n > 0) or before (n < 0) d; d itself for n = 0
RECURSIVE AddBusinessDays(_, _, _)
AddBusinessDays(d, n, holiday_calendar) ==
    IF n = 0 THEN d
    ELSE IF n > 0
         THEN AddBusinessDays(NextBusinessDay(d + 1, holiday_calendar), n - 1, holiday_calendar)
         ELSE AddBusinessDays(PreviousBusinessDay(d - 1, holiday_calendar), n + 1, holiday_calendar)

\* the signed number of business days a settlement convention moves by
SettlementOffset(settlement_convention) ==
    CASE settlement_convention = "T_MINUS_TWO_BUSINESS" -> 0 - 2
      [] settlement_convention = "T_PLUS_ZERO_BUSINESS" -> 0
      [] settlement_convention = "T_PLUS_TWO_BUSINESS"  -> 2

\* Scheduler.calculate_settlement_date
calculate_settlement_date(date_obj, settlement_convention, holiday_calendar) ==
    AddBusinessDays(date_obj, SettlementOffset(settlement_convention), holiday_calendar)

\* Scheduler.generate_dates_by_increments with increment = relativedelta(months):
\* start_date, then start_date moved by the increment again and again while
\* it stays strictly inside the bounds, then end_date: both ends are included
RECURSIVE StepDates(_, _, _, _)
StepDates(dates, current, end_date, months) ==
    IF (months < 0 /\ current > end_date) \/ (months > 0 /\ current < end_date)
    THEN StepDates(Append(dates, current), AddMonths(current, months), end_date, months)
    ELSE Append(dates, end_date)

generate_dates_by_increments(start_date, end_date, months) ==
    IF start_date = end_date THEN <<start_date>>
    ELSE StepDates(<<start_date>>, AddMonths(start_date, months), end_date, months)

\* DayCountCalculator.compute_accrual_length, as the numerator of a fraction
\* over 360: actual days, or 30/360 days with both days of month capped at 30
compute_accrual_length(start_date, end_date, day_count_convention) ==
    IF day_count_convention = "ACTUAL_OVER_360"
    THEN end_date - start_date
    ELSE 360 * (YearOf(end_date) - YearOf(start_date))
         + 30 * (MonthOf(end_date) - MonthOf(start_date))
         + (Min(DayOf(end_date), 30) - Min(DayOf(start_date), 30))

(***************************************************************************)
(* list.reverse and itertools.pairwise                                     *)
(***************************************************************************)
Reverse(s) == [i \in 1..Len(s) |-> s[Len(s) + 1 - i]]

Pairwise(s) == [i \in 1..(Len(s) - 1) |-> <<s[i], s[i + 1]>>]

(***************************************************************************)
(* The inputs a swap is built from.                                        *)
(***************************************************************************)
BaseDate == Ordinal(2024, 3, 28)

StartDates == BaseDate .. (BaseDate + MaxStartOffset)

\* tenors of a year and of a year and a month, so that an ANNUAL leg has a
\* full period, with and without a stub in front of it
LongTenorMonths == {12, 13}

\* the accrual windows: start_accrual_date < end_accrual_date
EndDates(start) ==
    { AddMonths(start, m) + e :
        m \in (0..MaxTenorMonths) \cup LongTenorMonths, e \in 0..MaxTenorDays } \ {start}

NoHolidays == {}

QuarterEndHolidays ==
    { Ordinal(2024, 3, 29), Ordinal(2024, 4, 1), Ordinal(2024, 7, 1),
      Ordinal(2024, 9, 30), Ordinal(2024, 12, 31) }

HolidayCalendars == {NoHolidays, QuarterEndHolidays}

\* (floating, fixed) frequencies: each leg meets each member once
FrequencyPairs ==
    { <<"ANNUAL", "SEMI_ANNUAL">>, <<"SEMI_ANNUAL", "QUARTERLY">>,
      <<"QUARTERLY", "MONTHLY">>, <<"MONTHLY", "ANNUAL">> }

\* the rate-fixing functions handed to create_floating_leg_cashflow: a
\* simulated short-rate path defined on every date, and a forward curve
\* that fails, with the error it raises, outside the dates it supports
InterestRates == {"SHORT_RATE_PATH", "FORWARD_CURVE"}

CurveFirstDate == Ordinal(2024, 3, 27)

CurveLastDate == Ordinal(2024, 9, 15)

interest_rate(fn, fixing_date) ==
    IF fn = "SHORT_RATE_PATH"
    THEN [ok |-> TRUE, rate |-> 20 + (fixing_date % 11), error |-> ""]
    ELSE IF fixing_date < CurveFirstDate \/ fixing_date > CurveLastDate
         THEN [ok |-> FALSE, rate |-> 0, error |-> "RateFixingError"]
         ELSE [ok |-> TRUE, rate |-> 30 + (fixing_date % 7), error |-> ""]

(***************************************************************************)
(* TermInterestRateSwap                                                    *)
(***************************************************************************)
VARIABLES
    self,                      \* the instrument parameters set by __init__
    cashflows,                 \* the CashflowCollection's legs, by CashflowKeys
    call,                      \* the method called last, with its argument
    ret,                       \* what that call returned or raised
    unadjusted_accrual_dates,  \* the generator's boundary list, after reverse()
    accruals,                  \* the SwapAccrual list the generator returned
    fixings,                   \* the dates interest_rate was called with
    memo                       \* the first leg-builder call, its result, and
                               \* whether that call was made again

vars == <<self, cashflows, call, ret, unadjusted_accrual_dates, accruals, fixings, memo>>

\* SwapPayment.fixing_date = None
NoDate == 0

NoneValue == [kind |-> "None", value |-> <<>>]

NoCall == [method |-> "__init__", arg |-> ""]

\* the value a method returns ("list", "Cashflow", "None") or the error it
\* raises, together with the locals it ended with
Outcome(kind, value, unadjusted, swap_accruals, calls) ==
    [kind |-> kind, value |-> value, unadjusted_accrual_dates |-> unadjusted,
     accruals |-> swap_accruals, fixings |-> calls]

\* create_date_adjustment_function: the adjustment chosen by
\* business_day_adjustment, applied to date_obj
date_adjustment_function(swap, date_obj) ==
    IF swap.business_day_adjustment = "FOLLOWING"
    THEN following_date_adjustment(date_obj, swap.holiday_calendar)
    ELSE modified_following_date_adjustment(date_obj, swap.holiday_calendar)

\* the match on the payment frequency: the relativedelta, in months
Increment(payment_frequency) ==
    CASE payment_frequency = "ANNUAL"      -> 0 - 12
      [] payment_frequency = "SEMI_ANNUAL" -> 0 - 6
      [] payment_frequency = "QUARTERLY"   -> 0 - 3

IsValidFrequency(payment_frequency) ==
    payment_frequency \in {"ANNUAL", "SEMI_ANNUAL", "QUARTERLY"}

SwapAccrual(start_accrual, end_accrual, accrual_factor) ==
    [start_accrual |-> start_accrual, end_accrual |-> end_accrual,
     accrual_factor |-> accrual_factor]

SwapPayment(payment_date, payment, fixing_date) ==
    [payment_date |-> payment_date, payment |-> payment, fixing_date |-> fixing_date]

\* adjusted_accrual_dates: the date adjustment applied to every boundary
AdjustedDates(swap, unadjusted) ==
    [i \in 1..Len(unadjusted) |-> date_adjustment_function(swap, unadjusted[i])]

\* the loop over pairwise(adjusted_accrual_dates): one SwapAccrual per pair,
\* with the accrual length of the adjusted dates
SwapAccruals(pairs, day_count_convention) ==
    [i \in 1..Len(pairs) |->
        SwapAccrual(pairs[i][1], pairs[i][2],
                    compute_accrual_length(pairs[i][1], pairs[i][2], day_count_convention))]

\* return swap_accruals
ReturnSchedule(unadjusted, swap_accruals) ==
    Outcome("list", swap_accruals, unadjusted, swap_accruals, <<>>)

\* the floating generator's boundaries stepped forward from the start date
floating_unadjusted_accrual_dates_Forward(swap, increment) ==
    generate_dates_by_increments(swap.start_accrual_date, swap.end_accrual_date,
                                 0 - increment)

\* the floating generator's boundaries left in generation order
floating_unadjusted_accrual_dates_NoReverse(swap, increment) ==
    generate_dates_by_increments(swap.end_accrual_date, swap.start_accrual_date, increment)

\* generate_floating_leg_accrual_schedule: the boundaries stepped back from
\* end_accrual_date to start_accrual_date, then reversed
floating_unadjusted_accrual_dates(swap, increment) ==
    Reverse(generate_dates_by_increments(swap.end_accrual_date, swap.start_accrual_date,
                                         increment))

\* the generator from its boundary list on: adjust every boundary, pair the
\* adjusted dates, build the accruals and return them
floating_leg_schedule(swap, unadjusted) ==
    ReturnSchedule(unadjusted,
                   SwapAccruals(Pairwise(AdjustedDates(swap, unadjusted)),
                                swap.floating_leg_day_count_convention))

\* the floating generator falling back to a quarterly step for a frequency
\* it does not know
generate_floating_leg_accrual_schedule_DefaultsQuarterly(swap) ==
    floating_leg_schedule(swap,
        floating_unadjusted_accrual_dates(swap,
            IF IsValidFrequency(swap.floating_leg_payment_frequency)
            THEN Increment(swap.floating_leg_payment_frequency)
            ELSE 0 - 3))

generate_floating_leg_accrual_schedule(swap) ==
    IF ~IsValidFrequency(swap.floating_leg_payment_frequency)
    THEN Outcome("ValueError", <<>>, <<>>, <<>>, <<>>)
    ELSE floating_leg_schedule(swap,
             floating_unadjusted_accrual_dates(swap,
                 Increment(swap.floating_leg_payment_frequency)))

\* the fixed generator's boundaries left in generation order
fixed_unadjusted_accrual_dates_NoReverse(swap, increment) ==
    generate_dates_by_increments(swap.end_accrual_date, swap.start_accrual_date, increment)

\* generate_fixed_leg_accrual_schedule: the boundaries stepped back from
\* end_accrual_date to start_accrual_date, then reversed
fixed_unadjusted_accrual_dates(swap, increment) ==
    Reverse(generate_dates_by_increments(swap.end_accrual_date, swap.start_accrual_date,
                                         increment))

\* the generator from its boundary list on, as for the floating leg
fixed_leg_schedule(swap, unadjusted) ==
    ReturnSchedule(unadjusted,
                   SwapAccruals(Pairwise(AdjustedDates(swap, unadjusted)),
                                swap.fixed_leg_day_count_convention))

generate_fixed_leg_accrual_schedule(swap) ==
    IF ~IsValidFrequency(swap.fixed_leg_payment_frequency)
    THEN Outcome("ValueError", <<>>, <<>>, <<>>, <<>>)
    ELSE fixed_leg_schedule(swap,
             fixed_unadjusted_accrual_dates(swap,
                 Increment(swap.fixed_leg_payment_frequency)))

\* the fixing date taken from the end of the accrual period
floating_fixing_date_FromEnd(swap, accrual) ==
    calculate_settlement_date(accrual.end_accrual,
                              swap.fixing_date_for_accrual_period,
                              swap.holiday_calendar)

\* the fixing date offset by the payment delay instead of the fixing convention
floating_fixing_date_PaymentDelay(swap, accrual) ==
    calculate_settlement_date(accrual.start_accrual,
                              swap.payment_delay,
                              swap.holiday_calendar)

\* create_floating_leg_cashflow, the fixing date of one accrual period
floating_fixing_date(swap, accrual) ==
    calculate_settlement_date(accrual.start_accrual,
                              swap.fixing_date_for_accrual_period,
                              swap.holiday_calendar)

\* create_floating_leg_cashflow, the payment of one accrual period
floating_payment(swap, accrual, fixing_date, interest_rate_fixing) ==
    SwapPayment(calculate_settlement_date(accrual.end_accrual,
                                          swap.payment_delay,
                                          swap.holiday_calendar),
                accrual.accrual_factor * swap.notional * interest_rate_fixing,
                fixing_date)

RECURSIVE FloatingLegLoop(_, _, _, _, _, _)

\* the pass catching a failing interest_rate call and going on to the next
\* period without a payment
FloatingLegStep_SkipsFailure(swap, fn, schedule, i, floating_payments, calls, fixing_date, fixing) ==
    IF ~fixing.ok
    THEN FloatingLegLoop(swap, fn, schedule, i + 1, floating_payments,
                         Append(calls, fixing_date))
    ELSE FloatingLegLoop(swap, fn, schedule, i + 1,
                         Append(floating_payments,
                                floating_payment(swap, schedule.value[i], fixing_date,
                                                 fixing.rate)),
                         Append(calls, fixing_date))

\* one pass of the for loop of create_floating_leg_cashflow, from the rate
\* fixing on: a failing interest_rate call ends the method with the error
\* it raised
FloatingLegStep(swap, fn, schedule, i, floating_payments, calls, fixing_date, fixing) ==
    IF ~fixing.ok
    THEN Outcome(fixing.error, <<>>, schedule.unadjusted_accrual_dates,
                 schedule.value, Append(calls, fixing_date))
    ELSE FloatingLegLoop(swap, fn, schedule, i + 1,
                         Append(floating_payments,
                                floating_payment(swap, schedule.value[i], fixing_date,
                                                 fixing.rate)),
                         Append(calls, fixing_date))

\* the pass for period i, from its fixing date on
FloatingLegFixing(swap, fn, schedule, i, floating_payments, calls, fixing_date) ==
    FloatingLegStep(swap, fn, schedule, i, floating_payments, calls, fixing_date,
                    interest_rate(fn, fixing_date))

\* the for loop of create_floating_leg_cashflow from period i on
FloatingLegLoop(swap, fn, schedule, i, floating_payments, calls) ==
    IF i > Len(schedule.value)
    THEN Outcome("Cashflow", floating_payments, schedule.unadjusted_accrual_dates,
                 schedule.value, calls)
    ELSE FloatingLegFixing(swap, fn, schedule, i, floating_payments, calls,
                           floating_fixing_date(swap, schedule.value[i]))

\* create_floating_leg_cashflow once the schedule is generated
floating_leg_cashflow(swap, fn, floating_leg_accruals) ==
    IF floating_leg_accruals.kind = "ValueError"
    THEN floating_leg_accruals
    ELSE FloatingLegLoop(swap, fn, floating_leg_accruals, 1, <<>>, <<>>)

create_floating_leg_cashflow(swap, fn) ==
    floating_leg_cashflow(swap, fn, generate_floating_leg_accrual_schedule(swap))

\* the fixed payment delayed by calendar days instead of business days
fixed_payment_CalendarDays(swap, accrual) ==
    SwapPayment(accrual.end_accrual + SettlementOffset(swap.payment_delay),
                accrual.accrual_factor * swap.notional * swap.fixed_rate,
                NoDate)

\* the fixed payment with the notional left out of the amount
fixed_payment_NoNotional(swap, accrual) ==
    SwapPayment(calculate_settlement_date(accrual.end_accrual,
                                          swap.payment_delay,
                                          swap.holiday_calendar),
                accrual.accrual_factor * swap.fixed_rate,
                NoDate)

\* create_fixed_leg_cashflow, the payment of one accrual period
fixed_payment(swap, accrual) ==
    SwapPayment(calculate_settlement_date(accrual.end_accrual,
                                          swap.payment_delay,
                                          swap.holiday_calendar),
                accrual.accrual_factor * swap.notional * swap.fixed_rate,
                NoDate)

\* create_fixed_leg_cashflow once the schedule is generated
fixed_leg_cashflow(swap, fixed_leg_accruals) ==
    IF fixed_leg_accruals.kind = "ValueError"
    THEN fixed_leg_accruals
    ELSE Outcome("Cashflow",
                 [i \in 1..Len(fixed_leg_accruals.value) |->
                     fixed_payment(swap, fixed_leg_accruals.value[i])],
                 fixed_leg_accruals.unadjusted_accrual_dates,
                 fixed_leg_accruals.value, <<>>)

create_fixed_leg_cashflow(swap) ==
    fixed_leg_cashflow(swap, generate_fixed_leg_accrual_schedule(swap))

\* return self[key]
ReturnItem(leg) == Outcome(leg.kind, leg.value, <<>>, <<>>, <<>>)

\* CashflowCollection.__getitem__
GetItem(collection, cashflow_key) == collection[cashflow_key]

(***************************************************************************)
(* The state after __init__, and one action per method.                    *)
(***************************************************************************)
Init ==
    /\ \E start \in StartDates, calendar \in HolidayCalendars,
          frequencies \in FrequencyPairs,
          fixing_convention \in SettlementConvention,
          delay \in SettlementConvention,
          adjustment \in BusinessDayAdjustment :
         \E end \in EndDates(start) :
           self = [ float_index |-> "LIBOR_3M",
                    direction |-> "RECEIVER_FIXED",
                    fixed_rate |-> 55,
                    notional |-> 1000,
                    start_accrual_date |-> start,
                    end_accrual_date |-> end,
                    purchase_date |-> start,
                    floating_leg_payment_frequency |-> frequencies[1],
                    fixed_leg_payment_frequency |-> frequencies[2],
                    floating_leg_day_count_convention |-> "ACTUAL_OVER_360",
                    fixed_leg_day_count_convention |-> "THIRTY_OVER_THREESIXTY",
                    holiday_calendar |-> calendar,
                    fixing_date_for_accrual_period |-> fixing_convention,
                    payment_delay |-> delay,
                    business_day_adjustment |-> adjustment ]
    /\ cashflows = [FIXED_LEG |-> NoneValue, FLOATING_LEG |-> NoneValue]
    /\ call = NoCall
    /\ ret = NoneValue
    /\ unadjusted_accrual_dates = <<>>
    /\ accruals = <<>>
    /\ fixings = <<>>
    /\ memo = [call |-> NoCall, ret |-> NoneValue, repeated |-> FALSE]

\* the method returns or raises: its outcome becomes the visible result
Returns(method, arg, outcome) ==
    /\ call' = [method |-> method, arg |-> arg]
    /\ ret' = [kind |-> outcome.kind, value |-> outcome.value]
    /\ unadjusted_accrual_dates' = outcome.unadjusted_accrual_dates
    /\ accruals' = outcome.accruals
    /\ fixings' = outcome.fixings

\* the first leg-builder call is remembered with its result, and whether
\* the same call has been made again since
Remember ==
    memo' = IF memo.call = NoCall
            THEN [call |-> call', ret |-> ret', repeated |-> FALSE]
            ELSE [memo EXCEPT !.repeated = memo.repeated \/ (call' = memo.call)]

GenerateFloatingLegAccrualSchedule ==
    /\ Returns("generate_floating_leg_accrual_schedule", "",
               generate_floating_leg_accrual_schedule(self))
    /\ UNCHANGED <<self, cashflows, memo>>

\* the fixed generator writing the adjusted window start back to the swap
GenerateFixedLegAccrualSchedule_MovesWindow ==
    /\ Returns("generate_fixed_leg_accrual_schedule", "",
               generate_fixed_leg_accrual_schedule(self))
    /\ self' = [self EXCEPT !.start_accrual_date =
                              date_adjustment_function(self, self.start_accrual_date)]
    /\ UNCHANGED <<cashflows, memo>>

GenerateFixedLegAccrualSchedule ==
    /\ Returns("generate_fixed_leg_accrual_schedule", "",
               generate_fixed_leg_accrual_schedule(self))
    /\ UNCHANGED <<self, cashflows, memo>>

CreateFloatingLegCashflow ==
    \E fn \in InterestRates :
      /\ Returns("create_floating_leg_cashflow", fn, create_floating_leg_cashflow(self, fn))
      /\ Remember
      /\ UNCHANGED <<self, cashflows>>

CreateFixedLegCashflow ==
    /\ Returns("create_fixed_leg_cashflow", "", create_fixed_leg_cashflow(self))
    /\ Remember
    /\ UNCHANGED <<self, cashflows>>

FloatingLeg ==
    /\ Returns("floating_leg", "", ReturnItem(GetItem(cashflows, "FLOATING_LEG")))
    /\ UNCHANGED <<self, cashflows, memo>>

FixedLeg ==
    /\ Returns("fixed_leg", "", ReturnItem(GetItem(cashflows, "FIXED_LEG")))
    /\ UNCHANGED <<self, cashflows, memo>>

Next ==
    \/ GenerateFloatingLegAccrualSchedule
    \/ GenerateFixedLegAccrualSchedule
    \/ CreateFloatingLegCashflow
    \/ CreateFixedLegCashflow
    \/ FloatingLeg
    \/ FixedLeg

Spec == Init /\ [][Next]_vars

(***************************************************************************)
(* Properties.                                                             *)
(***************************************************************************)
\* the last call was a schedule generator and it returned its list
ScheduleReturned ==
    /\ call.method \in {"generate_fixed_leg_accrual_schedule",
                        "generate_floating_leg_accrual_schedule"}
    /\ ret.kind = "list"

\* the last call was a leg builder and it returned its Cashflow
LegReturned ==
    /\ call.method \in {"create_fixed_leg_cashflow", "create_floating_leg_cashflow"}
    /\ ret.kind = "Cashflow"

FloatingLegReturned ==
    call.method = "create_floating_leg_cashflow" /\ ret.kind = "Cashflow"

FixedLegReturned ==
    call.method = "create_fixed_leg_cashflow" /\ ret.kind = "Cashflow"

\* the step, in months, of the leg the last call worked on
CalledStep ==
    IF call.method \in {"generate_fixed_leg_accrual_schedule", "create_fixed_leg_cashflow"}
    THEN Increment(self.fixed_leg_payment_frequency)
    ELSE Increment(self.floating_leg_payment_frequency)

\* the window is not a whole number of steps: the first boundary is later
\* than a full step back from the second
HasFrontStub ==
    /\ Len(unadjusted_accrual_dates) >= 2
    /\ unadjusted_accrual_dates[1] > AddMonths(unadjusted_accrual_dates[2], CalledStep)

C2_LegAccessorsReturnCashflow ==
    call.method \in {"fixed_leg", "floating_leg"} => ret.kind = "Cashflow"

C4_FixingBeforeStartAndPayment ==
    FloatingLegReturned =>
        \A i \in 1..Len(ret.value) :
            /\ ret.value[i].fixing_date <= accruals[i].start_accrual
            /\ ret.value[i].fixing_date < ret.value[i].payment_date

\* C4 as amended: when the fixing convention does not move forward
\* (T_MINUS_TWO_BUSINESS, T_PLUS_ZERO_BUSINESS), each floating payment's
\* fixing_date is <= the start_accrual of its period; when moreover the
\* payment delay does not move backward (T_PLUS_ZERO_BUSINESS,
\* T_PLUS_TWO_BUSINESS), fixing_date <= payment_date, and strictly before it
\* when the fixing convention is T_MINUS_TWO_BUSINESS.
C4_FixingNotAfterStart ==
    (/\ FloatingLegReturned
     /\ SettlementOffset(self.fixing_date_for_accrual_period) <= 0) =>
        \A i \in 1..Len(ret.value) :
            /\ ret.value[i].fixing_date <= accruals[i].start_accrual
            /\ SettlementOffset(self.payment_delay) >= 0 =>
                  /\ ret.value[i].fixing_date <= ret.value[i].payment_date
                  /\ SettlementOffset(self.fixing_date_for_accrual_period) < 0 =>
                        ret.value[i].fixing_date < ret.value[i].payment_date

\* a floating leg of several payments fixed two business days before the
\* period and paid two business days after it
C4_Witness ==
    /\ FloatingLegReturned
    /\ Len(ret.value) >= 2
    /\ self.fixing_date_for_accrual_period = "T_MINUS_TWO_BUSINESS"
    /\ self.payment_delay = "T_PLUS_TWO_BUSINESS"
    /\ ret.value[1].fixing_date < accruals[1].start_accrual

\* C5: within a returned leg, payment dates are non-decreasing in schedule
\* order.
C5_PaymentDatesNonDecreasing ==
    LegReturned =>
        \A i \in 1..(Len(ret.value) - 1) :
            ret.value[i].payment_date <= ret.value[i + 1].payment_date

\* a leg of at least three payments under MODIFIED_FOLLOWING with holidays
C5_Witness ==
    /\ LegReturned
    /\ Len(ret.value) >= 3
    /\ self.business_day_adjustment = "MODIFIED_FOLLOWING"
    /\ self.holiday_calendar # {}
    /\ ret.value[1].payment_date < ret.value[3].payment_date

C7_PaymentDateIsBusinessDay ==
    LegReturned =>
        \A i \in 1..Len(ret.value) :
            IsBusinessDay(ret.value[i].payment_date, self.holiday_calendar)

\* a leg paid with a delay whose period end, moved as many calendar days,
\* would fall on a non-business day
C7_Witness ==
    /\ LegReturned
    /\ self.payment_delay # "T_PLUS_ZERO_BUSINESS"
    /\ \E i \in 1..Len(ret.value) :
          ~IsBusinessDay(accruals[i].end_accrual + SettlementOffset(self.payment_delay),
                         self.holiday_calendar)

\* C8: a returned floating leg has one payment per floating accrual period,
\* in period order; payment i is fixed at the settlement offset of period
\* i's start_accrual, interest_rate was called with exactly those dates, and
\* the amount is accrual_factor * notional * the rate fixed there.
C8_FloatingLegFormula ==
    FloatingLegReturned =>
        /\ Len(ret.value) = Len(accruals)
        /\ Len(fixings) = Len(accruals)
        /\ \A i \in 1..Len(accruals) :
              LET fixing_date ==
                      calculate_settlement_date(accruals[i].start_accrual,
                                                self.fixing_date_for_accrual_period,
                                                self.holiday_calendar)
              IN /\ ret.value[i].fixing_date = fixing_date
                 /\ fixings[i] = fixing_date
                 /\ ret.value[i].payment =
                       accruals[i].accrual_factor * self.notional
                         * interest_rate(call.arg, fixing_date).rate
                 /\ ret.value[i].payment_date =
                       calculate_settlement_date(accruals[i].end_accrual,
                                                 self.payment_delay,
                                                 self.holiday_calendar)

\* a floating leg of several payments whose fixings differ from the fixings
\* the period ends would give, with different rates
C8_Witness ==
    /\ FloatingLegReturned
    /\ Len(ret.value) >= 2
    /\ \E i \in 1..Len(ret.value) :
          LET from_end == calculate_settlement_date(accruals[i].end_accrual,
                                                    self.fixing_date_for_accrual_period,
                                                    self.holiday_calendar)
          IN /\ from_end # ret.value[i].fixing_date
             /\ interest_rate(call.arg, from_end).rate
                  # interest_rate(call.arg, ret.value[i].fixing_date).rate
             /\ ret.value[i].payment > 0

\* C9: a returned fixed leg has one payment per fixed accrual period, in
\* period order; payment i amounts to accrual_factor * notional * fixed_rate
\* of period i, is paid at the settlement offset of its end_accrual, and has
\* no fixing date.
C9_FixedLegFormula ==
    FixedLegReturned =>
        /\ Len(ret.value) = Len(accruals)
        /\ \A i \in 1..Len(accruals) :
              /\ ret.value[i].payment =
                    accruals[i].accrual_factor * self.notional * self.fixed_rate
              /\ ret.value[i].payment_date =
                    calculate_settlement_date(accruals[i].end_accrual,
                                              self.payment_delay,
                                              self.holiday_calendar)
              /\ ret.value[i].fixing_date = NoDate

\* a fixed leg of several payments with different non-zero amounts
C9_Witness ==
    /\ FixedLegReturned
    /\ Len(ret.value) >= 2
    /\ ret.value[1].payment > 0
    /\ ret.value[1].payment # ret.value[2].payment

\* C10: no call changes an instrument parameter, and a leg-builder call that
\* repeats the remembered first one returns the same result, whatever was
\* called in between.
C10_PureAndIdempotent ==
    [][/\ self' = self
       /\ (call' = memo.call) => (ret' = memo.ret)]_vars

\* the remembered leg-builder call has just been made again and returned
\* the remembered Cashflow of several payments
C10_Witness ==
    /\ memo.repeated
    /\ call = memo.call
    /\ ret = memo.ret
    /\ ret.kind = "Cashflow"
    /\ Len(ret.value) >= 2

\* the fixing date of floating period i, from its start_accrual
PeriodFixingDate(i) ==
    calculate_settlement_date(accruals[i].start_accrual,
                              self.fixing_date_for_accrual_period,
                              self.holiday_calendar)

\* the floating periods whose fixing date the rate-fixing function fails for
FailingPeriods ==
    { i \in 1..Len(accruals) : ~interest_rate(call.arg, PeriodFixingDate(i)).ok }

FirstFailingPeriod == CHOOSE i \in FailingPeriods : \A j \in FailingPeriods : i <= j

\* C11: when the rate-fixing function fails for the fixing date of some
\* period, create_floating_leg_cashflow ends with the error that function
\* raised at the first such period, returns no payments, and has called the
\* function for no later period; otherwise it returns its Cashflow.
C11_FixingFailurePropagates ==
    (/\ call.method = "create_floating_leg_cashflow"
     /\ IsValidFrequency(self.floating_leg_payment_frequency)) =>
        IF FailingPeriods # {}
        THEN /\ ret.kind = interest_rate(call.arg, PeriodFixingDate(FirstFailingPeriod)).error
             /\ ret.kind # "Cashflow"
             /\ ret.value = <<>>
             /\ Len(fixings) = FirstFailingPeriod
             /\ fixings[FirstFailingPeriod] = PeriodFixingDate(FirstFailingPeriod)
        ELSE ret.kind = "Cashflow"

\* the rate-fixing function failed in a middle period: after a period that
\* fixed and before a period never reached
C11_Witness ==
    /\ call.method = "create_floating_leg_cashflow"
    /\ ret.kind = "RateFixingError"
    /\ Len(fixings) >= 2
    /\ Len(fixings) < Len(accruals)

\* the frequency of the leg the last call worked on
CalledFrequency ==
    IF call.method \in {"generate_fixed_leg_accrual_schedule", "create_fixed_leg_cashflow"}
    THEN self.fixed_leg_payment_frequency
    ELSE self.floating_leg_payment_frequency

\* the step in months the claim gives each recognised frequency
ClaimedStepMonths(payment_frequency) ==
    CASE payment_frequency = "ANNUAL"      -> 12
      [] payment_frequency = "SEMI_ANNUAL" -> 6
      [] payment_frequency = "QUARTERLY"   -> 3

\* C12: a generator or builder of a leg whose frequency is not ANNUAL,
\* SEMI_ANNUAL or QUARTERLY ends with the unsupported-frequency error, with
\* no boundary date generated, no accrual period, no rate fixing and no
\* payment; with a recognised frequency it does not raise that error and its
\* boundaries are 12, 6 or 3 months apart, stepping back from the end.
C12_UnsupportedFrequencyFails ==
    call.method \in {"generate_fixed_leg_accrual_schedule",
                     "generate_floating_leg_accrual_schedule",
                     "create_fixed_leg_cashflow",
                     "create_floating_leg_cashflow"} =>
        IF CalledFrequency \notin {"ANNUAL", "SEMI_ANNUAL", "QUARTERLY"}
        THEN /\ ret.kind = "ValueError"
             /\ ret.value = <<>>
             /\ unadjusted_accrual_dates = <<>>
             /\ accruals = <<>>
             /\ fixings = <<>>
        ELSE /\ ret.kind # "ValueError"
             /\ Len(unadjusted_accrual_dates) >= 2
             /\ \A i \in 2..(Len(unadjusted_accrual_dates) - 1) :
                   unadjusted_accrual_dates[i] =
                       AddMonths(unadjusted_accrual_dates[i + 1],
                                 0 - ClaimedStepMonths(CalledFrequency))
             /\ unadjusted_accrual_dates[1] >=
                   AddMonths(unadjusted_accrual_dates[2],
                             0 - ClaimedStepMonths(CalledFrequency))

\* the floating leg builder called on a swap whose floating frequency is
\* not recognised, ending with the error
C12_Witness ==
    /\ call.method = "create_floating_leg_cashflow"
    /\ self.floating_leg_payment_frequency = "MONTHLY"
    /\ ret.kind = "ValueError"

====
